---- MODULE Spec2Model ----
(***************************************************************************)
(* Model of extractEvents.py: the per-file extraction loop with its        *)
(* SIGALRM deadline, the normalisation of occurrences, the exact-date      *)
(* filter and the text digest formatter.                                   *)
(*                                                                         *)
(* Text is a sequence of character codes (ASCII).  A calendar date is a    *)
(* day number (days since 1970-01-01); a datetime is a record              *)
(*   [d, sec, us, aware, off]                                              *)
(* of local date, local second of the day, microsecond, whether it has a   *)
(* tzinfo and its UTC offset in seconds.  Timezones are fixed offsets      *)
(* within the few days the model covers.                                   *)
(***************************************************************************)
EXTENDS Integers, Sequences, FiniteSets, TLC

(***************************************************************************)
(* Bounds of the model.                                                    *)
(***************************************************************************)
\* number of input files on the command line
MaxFiles == 2
\* number of elements one file's occurrence generator is asked for
MaxOccs == 2
\* number of events handed to the filter / the formatter on their own
MaxEvents == 2

(***************************************************************************)
(* Program constants.                                                      *)
(***************************************************************************)
DAYS_TO_INCLUDE == 1
DefaultTimezone == "America/Los_Angeles"
AllDayMaxLength == 22
TimedMaxLength == 16

SecondsPerDay == 86400
\* time.max is 23:59:59.999999
MaxMicrosecond == 999999

(***************************************************************************)
(* Text helpers.                                                           *)
(***************************************************************************)
Min2(a, b) == IF a <= b THEN a ELSE b

\* s[:n]
Truncate(s, n) == SubSeq(s, 1, Min2(Len(s), n))

\* strict code-point order of two texts, as str.__lt__
RECURSIVE StrLess(_, _)
StrLess(s, t) ==
    IF t = <<>> THEN FALSE
    ELSE IF s = <<>> THEN TRUE
    ELSE IF Head(s) /= Head(t) THEN Head(s) < Head(t)
    ELSE StrLess(Tail(s), Tail(t))

IsSpace(c) == c \in {32, 9, 10, 13}

RECURSIVE LStrip(_)
LStrip(s) == IF s /= <<>> /\ IsSpace(Head(s)) THEN LStrip(Tail(s)) ELSE s

RECURSIVE RStrip(_)
RStrip(s) ==
    IF s /= <<>> /\ IsSpace(s[Len(s)]) THEN RStrip(SubSeq(s, 1, Len(s) - 1)) ELSE s

\* str.strip()
Strip(s) == RStrip(LStrip(s))

\* str.upper() on ASCII
Upper(s) == [i \in 1..Len(s) |-> IF s[i] >= 97 /\ s[i] <= 122 THEN s[i] - 32 ELSE s[i]]

\* "%02d"
TwoDigits(n) == <<48 + (n \div 10), 48 + (n % 10)>>

\* "\n".join(lines)
RECURSIVE JoinLines(_)
JoinLines(lines) ==
    IF lines = <<>> THEN <<>>
    ELSE IF Len(lines) = 1 THEN lines[1]
    ELSE lines[1] \o <<10>> \o JoinLines(Tail(lines))

(***************************************************************************)
(* Calendar arithmetic (proleptic Gregorian), as datetime does it.         *)
(***************************************************************************)
IsLeap(y) == (y % 4 = 0) /\ ((y % 100 /= 0) \/ (y % 400 = 0))

DaysInMonth(y, m) ==
    IF m = 2 THEN (IF IsLeap(y) THEN 29 ELSE 28)
    ELSE IF m \in {4, 6, 9, 11} THEN 30 ELSE 31

DaysFromCivil(y, m, d) ==
    LET yy == IF m <= 2 THEN y - 1 ELSE y
        era == yy \div 400
        yoe == yy - era * 400
        mp == IF m > 2 THEN m - 3 ELSE m + 9
        doy == (153 * mp + 2) \div 5 + d - 1
        doe == yoe * 365 + yoe \div 4 - yoe \div 100 + doy
    IN era * 146097 + doe - 719468

CivilFromDays(z) ==
    LET zz == z + 719468
        era == zz \div 146097
        doe == zz - era * 146097
        yoe == (doe - doe \div 1460 + doe \div 36524 - doe \div 146096) \div 365
        doy == doe - (365 * yoe + yoe \div 4 - yoe \div 100)
        mp == (5 * doy + 2) \div 153
        d == doy - (153 * mp + 2) \div 5 + 1
        m == IF mp < 10 THEN mp + 3 ELSE mp - 9
        y == yoe + era * 400 + (IF m <= 2 THEN 1 ELSE 0)
    IN [y |-> y, m |-> m, d |-> d]

\* "%B": the full month names
MonthName(m) ==
    CASE m = 1 -> <<74, 97, 110, 117, 97, 114, 121>>
      [] m = 2 -> <<70, 101, 98, 114, 117, 97, 114, 121>>
      [] m = 3 -> <<77, 97, 114, 99, 104>>
      [] m = 4 -> <<65, 112, 114, 105, 108>>
      [] m = 5 -> <<77, 97, 121>>
      [] m = 6 -> <<74, 117, 110, 101>>
      [] m = 7 -> <<74, 117, 108, 121>>
      [] m = 8 -> <<65, 117, 103, 117, 115, 116>>
      [] m = 9 -> <<83, 101, 112, 116, 101, 109, 98, 101, 114>>
      [] m = 10 -> <<79, 99, 116, 111, 98, 101, 114>>
      [] m = 11 -> <<78, 111, 118, 101, 109, 98, 101, 114>>
      [] OTHER -> <<68, 101, 99, 101, 109, 98, 101, 114>>

IsDigit(c) == c >= 48 /\ c <= 57

RECURSIVE AllDigits(_)
AllDigits(s) == s = <<>> \/ (IsDigit(Head(s)) /\ AllDigits(Tail(s)))

RECURSIVE ToNumber(_)
ToNumber(s) == IF s = <<>> THEN 0 ELSE 10 * ToNumber(SubSeq(s, 1, Len(s) - 1)) + (s[Len(s)] - 48)

\* a field of one or two digits, as the %m and %d directives accept it
IsField(s) == Len(s) \in {1, 2} /\ AllDigits(s)

\* the split of "YYYY-M-D" text after the year: the position of the second dash
SecondDash(s) == IF Len(s) >= 7 /\ s[7] = 45 THEN 7 ELSE 8

\* datetime.strptime(s, "%Y-%m-%d") succeeds
StrptimeOk(s) ==
    /\ Len(s) >= 8
    /\ Len(s) <= 10
    /\ AllDigits(SubSeq(s, 1, 4))
    /\ s[5] = 45
    /\ LET p == SecondDash(s)
           y == ToNumber(SubSeq(s, 1, 4))
           ms == SubSeq(s, 6, p - 1)
           ds == SubSeq(s, p + 1, Len(s))
       IN /\ p < Len(s)
          /\ s[p] = 45
          /\ IsField(ms)
          /\ IsField(ds)
          /\ y >= 1
          /\ ToNumber(ms) \in 1..12
          /\ ToNumber(ds) >= 1
          /\ ToNumber(ds) <= DaysInMonth(y, ToNumber(ms))

\* datetime.strptime(s, "%Y-%m-%d").date(), for a text StrptimeOk accepts
StrptimeDate(s) ==
    LET p == SecondDash(s)
    IN DaysFromCivil(ToNumber(SubSeq(s, 1, 4)),
                     ToNumber(SubSeq(s, 6, p - 1)),
                     ToNumber(SubSeq(s, p + 1, Len(s))))

(***************************************************************************)
(* Dates and datetimes.                                                    *)
(***************************************************************************)
\* the timezone database: identifier -> UTC offset (seconds) in the modelled days
TzDb == [z \in {"America/Los_Angeles", "UTC"} |->
            IF z = "UTC" THEN 0 ELSE 0 - 28800]

\* pytz.timezone(name) succeeds
TzKnown(name) == name \in DOMAIN TzDb

\* offset of the zone the operating system is set to: astimezone() reads a
\* naive datetime as local time of that zone
SystemUtcOffset == 3600

\* datetime.combine(d, t) followed by replace(tzinfo=pytz.UTC)
CombineUtc(day, second, micro) ==
    [d |-> day, sec |-> second, us |-> micro, aware |-> TRUE, off |-> 0]

\* seconds since the epoch of a datetime (a naive one is read as system local time)
EpochSeconds(dt) ==
    dt.d * SecondsPerDay + dt.sec - (IF dt.aware THEN dt.off ELSE SystemUtcOffset)

\* dt.astimezone(tz), tz given by its offset
AsTimezone(dt, tzoff) ==
    LET local == EpochSeconds(dt) + tzoff
    IN [d |-> local \div SecondsPerDay, sec |-> local % SecondsPerDay,
        us |-> dt.us, aware |-> TRUE, off |-> tzoff]

\* dt.time() == time.min, dt.time() == time.max
IsTimeMin(dt) == dt.sec = 0 /\ dt.us = 0
IsTimeMax(dt) == dt.sec = SecondsPerDay - 1 /\ dt.us = MaxMicrosecond

\* a < b on aware datetimes (the order list.sort(key=start_time) uses)
InstantLess(a, b) ==
    \/ EpochSeconds(a) < EpochSeconds(b)
    \/ (EpochSeconds(a) = EpochSeconds(b) /\ a.us < b.us)

\* strftime("%H:%M")
HourMinute(dt) ==
    TwoDigits(dt.sec \div 3600) \o <<58>> \o TwoDigits((dt.sec % 3600) \div 60)

(***************************************************************************)
(* Raw occurrences, as the recurrence library hands them over: a component *)
(* with optional SUMMARY, DTSTART, DTEND, LOCATION and RRULE.  A raw time  *)
(* is a date (isDatetime = FALSE) or a datetime, naive or zoned, with      *)
(* whole seconds.                                                          *)
(***************************************************************************)
RawDate(day) ==
    [isDatetime |-> FALSE, d |-> day, sec |-> 0, us |-> 0, aware |-> FALSE, off |-> 0]

RawNaive(day, second) ==
    [isDatetime |-> TRUE, d |-> day, sec |-> second, us |-> 0, aware |-> FALSE, off |-> 0]

RawZoned(day, second, offset) ==
    [isDatetime |-> TRUE, d |-> day, sec |-> second, us |-> 0, aware |-> TRUE, off |-> offset]

NoTitle == <<78, 111, 32, 84, 105, 116, 108, 101>>

\* event.get('SUMMARY', 'No Title')
TitleOf(ev) == IF ev.hasSummary THEN ev.summary ELSE NoTitle

\* event['DTEND'].dt if 'DTEND' in event else start_time
RawEnd(ev) == IF ev.hasEnd THEN ev.dtend ELSE ev.dtstart

\* lines 111-131 raise: KeyError when DTSTART is missing, AttributeError when
\* astimezone is called on a date end
NormalizeRaises(ev) ==
    \/ ~ev.hasStart
    \/ (ev.dtstart.isDatetime /\ ~RawEnd(ev).isDatetime)

\* start_time after lines 111-127
NormStart(ev, tzoff) ==
    IF ev.dtstart.isDatetime
    THEN AsTimezone([k \in {"d", "sec", "us", "aware", "off"} |-> ev.dtstart[k]], tzoff)
    ELSE CombineUtc(ev.dtstart.d, 0, 0)

\* end_time after lines 112-131
NormEnd(ev, tzoff) ==
    LET e == RawEnd(ev)
        plain == [k \in {"d", "sec", "us", "aware", "off"} |-> e[k]]
    IN IF ~e.isDatetime THEN CombineUtc(e.d, SecondsPerDay - 1, MaxMicrosecond)
       ELSE IF ev.dtstart.isDatetime THEN AsTimezone(plain, tzoff)
       ELSE plain

\* the dictionary appended at lines 139-145
Occurrence(ev, tzoff) ==
    [title |-> TitleOf(ev), location |-> ev.location,
     start_time |-> NormStart(ev, tzoff), end_time |-> NormEnd(ev, tzoff),
     is_recurring |-> ev.rrule]

(***************************************************************************)
(* filter_events_by_date (lines 164-181), for a date text strptime accepts *)
(***************************************************************************)
\* FilterLoop with ">=" in place of "==" at line 173
RECURSIVE FilterLoopFrom(_, _)
FilterLoopFrom(events, day) ==
    IF events = <<>> THEN <<>>
    ELSE IF Head(events).start_time.d >= day
         THEN <<Head(events)>> \o FilterLoopFrom(Tail(events), day)
         ELSE FilterLoopFrom(Tail(events), day)

RECURSIVE FilterLoop(_, _)
FilterLoop(events, day) ==
    IF events = <<>> THEN <<>>
    ELSE IF Head(events).start_time.d = day
         THEN <<Head(events)>> \o FilterLoop(Tail(events), day)
         ELSE FilterLoop(Tail(events), day)

filter_events_by_date(events, filter_date) == FilterLoop(events, StrptimeDate(filter_date))

(***************************************************************************)
(* Sorting: list.sort() is stable.  StableSort(s, Less(_, _)) puts element *)
(* i at the position given by the number of elements that go before it.    *)
(***************************************************************************)
SortRank(s, i, Less(_, _)) ==
    Cardinality({j \in 1..Len(s) : Less(s[j], s[i]) \/ (j < i /\ ~Less(s[i], s[j]))}) + 1

\* the index of the element that ends at position k
SortSource(s, k, Less(_, _)) == CHOOSE i \in 1..Len(s) : SortRank(s, i, Less) = k

StartLess(a, b) == InstantLess(a.start_time, b.start_time)

\* filtered_events.sort(key=lambda x: x['start_time'])  (line 270)
SortByStart(events) == [k \in 1..Len(events) |-> events[SortSource(events, k, StartLess)]]

\* lines.sort()  (lines 232, 235)
SortLines(lines) == [k \in 1..Len(lines) |-> lines[SortSource(lines, k, StrLess)]]

(***************************************************************************)
(* summarize_with_gpt (lines 183-215): the reply of the model, stripped    *)
(* and cut to max_length, or the title cut to max_length when the call     *)
(* raises.                                                                 *)
(***************************************************************************)
summarize_with_gpt(title, max_length, reply) ==
    IF reply.ok THEN Truncate(Strip(reply.text), max_length)
    ELSE Truncate(title, max_length)

\* header of the digest (lines 240-241)
DateHeader(filter_date) ==
    LET c == CivilFromDays(StrptimeDate(filter_date))
    IN <<45, 45, 45, 32>> \o Upper(MonthName(c.m) \o <<32>> \o TwoDigits(c.d))
         \o <<32, 45, 45, 45, 10>>

(***************************************************************************)
(* Inputs the model draws from.                                            *)
(***************************************************************************)
\* 2024-01-30, the day of the run: datetime.now(tz).date() at line 89
Today0 == DaysFromCivil(2024, 1, 30)

\* "A", "B", "Mtg", "Quarterly planning" (18 characters)
TitleA == <<65>>
TitleB == <<66>>
TitleMtg == <<77, 116, 103>>
TitleLong == <<81, 117, 97, 114, 116, 101, 114, 108, 121, 32, 112, 108, 97, 110, 110, 105, 110, 103>>

RawEvent(title, start, hasEnd, end, rrule) ==
    [hasSummary |-> TRUE, summary |-> title, hasStart |-> TRUE, dtstart |-> start,
     hasEnd |-> hasEnd, dtend |-> end, location |-> <<>>, rrule |-> rrule]

\* what one file's generator may yield in the extraction runs
RawOccs ==
    { \* 03:00 UTC two days ahead = 19:00 tomorrow in Los Angeles, recurring
      RawEvent(TitleMtg, RawZoned(Today0 + 2, 10800, 0), TRUE, RawZoned(Today0 + 2, 14400, 0), TRUE),
      \* date start with a naive datetime end, tomorrow
      RawEvent(TitleMtg, RawDate(Today0 + 1), TRUE, RawNaive(Today0 + 1, 36000), FALSE),
      \* all-day two days ahead, no DTEND
      RawEvent(TitleMtg, RawDate(Today0 + 2), FALSE, RawDate(Today0 + 2), FALSE),
      \* zoned start with a date end: astimezone raises
      RawEvent(TitleMtg, RawZoned(Today0, 36000, 0), TRUE, RawDate(Today0 + 1), FALSE) }

\* --timezone values: empty, known, not in the database
TzArgs == {"", "America/Los_Angeles", "Mars/Olympus_Mons"}

\* --date values: "2024-01-31" and "01/31/2024"
DateGood == <<50, 48, 50, 52, 45, 48, 49, 45, 51, 49>>
DateSlashes == <<48, 49, 47, 51, 49, 47, 50, 48, 50, 52>>
DateArgs == {DateGood, DateSlashes}

\* replies of the language model: the call raises, or it answers "Mtg "
GptReplies == {[ok |-> FALSE, text |-> <<>>], [ok |-> TRUE, text |-> <<77, 116, 103, 32>>]}

(***************************************************************************)
(* State.                                                                  *)
(***************************************************************************)
VARIABLES
    pc,                  \* position of the program
    nFiles,              \* len(args.ics_files)
    tzArg,               \* args.timezone
    dateArg,             \* args.date
    target_timezone,     \* parameter of extract_recurring_events_ics, rebound at line 77
    all_events,          \* line 79
    fileIdx,             \* index of ical_file_path in the loop of line 81
    current_date,        \* line 89
    end_date,            \* line 90
    alarm,               \* "armed" between signal.alarm(5) and its expiry or signal.alarm(0)
    filtered_events,     \* local of the loop, line 105: [bound, list]
    exception,           \* the exception in flight or that ended the run (with the
                         \* line that raised it), "" if none
    consumed,            \* elements requested from the current file's generator
    broke,               \* the current file's loop was left through break (line 137)
    own,                 \* what the current file's loop appended itself
    timedOut,            \* the alarm expired while the current file was processed
    yielded,             \* the elements the current file's generator has handed to
                         \* the loop of line 107, in order; the last is `event`
    unread,              \* after a break: the element the generator held next, if any
    main_filtered_events,\* filtered_events of __main__, lines 267-270
    ics_out,             \* combined_expanded.ics: [written, content]
    txt_out,             \* combined_events.txt: [written, content]
    fmt_i,               \* events consumed by the loop of line 220
    all_day_events,      \* line 218
    timed_events,        \* line 219
    timed_starts,        \* start_time of the event behind each entry of timed_events
    classes,             \* per formatted event: "allday" or "timed"
    lines,               \* per formatted event: the entry rendered for it
    fmt_raw,             \* the raw occurrence behind each event given to the formatter
    digest               \* return value of format_events_for_text_file

vars == <<pc, nFiles, tzArg, dateArg, target_timezone, all_events, fileIdx, current_date,
          end_date, alarm, filtered_events, exception, consumed, broke, own, timedOut,
          yielded, unread, main_filtered_events, ics_out, txt_out, fmt_i, all_day_events,
          timed_events, timed_starts, classes, lines, fmt_raw, digest>>

argVars == <<nFiles, tzArg, dateArg>>
extractVars == <<target_timezone, all_events, fileIdx, current_date, end_date, alarm,
                 filtered_events, consumed, broke, own, timedOut, yielded, unread>>
mainVars == <<main_filtered_events, ics_out, txt_out>>
formatVars == <<fmt_i, all_day_events, timed_events, timed_starts, classes, lines, digest>>

Unbound == [bound |-> FALSE, list |-> <<>>]
Unwritten(empty) == [written |-> FALSE, content |-> empty]

\* values before extract_recurring_events_ics and the formatter have run
ExtractIdle ==
    /\ target_timezone = ""
    /\ all_events = <<>>
    /\ fileIdx = 0
    /\ current_date = Today0
    /\ end_date = Today0
    /\ alarm = "off"
    /\ filtered_events = Unbound
    /\ exception = ""
    /\ consumed = 0
    /\ broke = FALSE
    /\ own = <<>>
    /\ timedOut = FALSE
    /\ yielded = <<>>
    /\ unread = <<>>

FormatIdle ==
    /\ fmt_i = 0
    /\ all_day_events = <<>>
    /\ timed_events = <<>>
    /\ timed_starts = <<>>
    /\ classes = <<>>
    /\ lines = <<>>
    /\ digest = <<>>

\* the script after argparse (line 260)
Init ==
    /\ pc = "main"
    /\ nFiles \in 1..MaxFiles
    /\ tzArg \in TzArgs
    /\ dateArg \in DateArgs
    /\ ExtractIdle
    /\ main_filtered_events = <<>>
    /\ ics_out = Unwritten(<<>>)
    /\ txt_out = Unwritten(<<>>)
    /\ FormatIdle
    /\ fmt_raw = <<>>

(***************************************************************************)
(* extract_recurring_events_ics, lines 71-162.                             *)
(***************************************************************************)
\* an uncaught exception ends the script
Abort(name) ==
    /\ pc' = "aborted"
    /\ exception' = name

\* EnterExtract without lines 76-77
EnterExtractNoDefault ==
    /\ pc = "main"
    /\ target_timezone' = tzArg
    /\ all_events' = <<>>
    /\ pc' = "for_file"
    /\ UNCHANGED <<argVars, fileIdx, current_date, end_date, alarm, filtered_events,
                   exception, consumed, broke, own, timedOut,
                   yielded, unread, mainVars, formatVars,
                   fmt_raw>>

\* lines 266, 72-79: call, default the timezone when it is empty
EnterExtract ==
    /\ pc = "main"
    /\ target_timezone' = IF tzArg = "" THEN DefaultTimezone ELSE tzArg
    /\ all_events' = <<>>
    /\ pc' = "for_file"
    /\ UNCHANGED <<argVars, fileIdx, current_date, end_date, alarm, filtered_events,
                   exception, consumed, broke, own, timedOut,
                   yielded, unread, mainVars, formatVars,
                   fmt_raw>>

\* line 81: next path of the list, or the end of the loop and the return of line 162
NextFile ==
    /\ pc = "for_file"
    /\ IF fileIdx < nFiles
       THEN /\ fileIdx' = fileIdx + 1
            /\ pc' = "open"
       ELSE /\ fileIdx' = fileIdx
            /\ pc' = "filter"
    /\ consumed' = 0
    /\ broke' = FALSE
    /\ own' = <<>>
    /\ timedOut' = FALSE
    /\ yielded' = <<>>
    /\ unread' = <<>>
    /\ UNCHANGED <<argVars, target_timezone, all_events, current_date, end_date, alarm,
                   filtered_events, exception, mainVars, formatVars, fmt_raw>>

\* lines 82-83: open and read the file; OSError when it cannot be read
OpenRead ==
    /\ pc = "open"
    /\ \/ (pc' = "parse" /\ UNCHANGED exception)
       \/ Abort("OSError@82")
    /\ UNCHANGED <<argVars, extractVars, mainVars, formatVars, fmt_raw>>

\* line 86: icalendar.Calendar.from_ical; ValueError when the text is no calendar
ParseCalendar ==
    /\ pc = "parse"
    /\ \/ (pc' = "now" /\ UNCHANGED exception)
       \/ Abort("ValueError@86")
    /\ UNCHANGED <<argVars, extractVars, mainVars, formatVars, fmt_raw>>

\* lines 89-90: today in the target timezone; pytz raises for an unknown name
GetCurrentDate ==
    /\ pc = "now"
    /\ IF TzKnown(target_timezone)
       THEN /\ current_date' = Today0
            /\ end_date' = Today0 + DAYS_TO_INCLUDE
            /\ pc' = "arm"
            /\ UNCHANGED exception
       ELSE /\ Abort("UnknownTimeZoneError@89")
            /\ UNCHANGED <<current_date, end_date>>
    /\ UNCHANGED <<argVars, target_timezone, all_events, fileIdx, alarm, filtered_events,
                   consumed, broke, own, timedOut,
                   yielded, unread, mainVars, formatVars, fmt_raw>>

\* lines 96-97: install the handler, signal.alarm(5)
ArmAlarm ==
    /\ pc = "arm"
    /\ alarm' = "armed"
    /\ pc' = "pre_try"
    /\ UNCHANGED <<argVars, target_timezone, all_events, fileIdx, current_date, end_date,
                   filtered_events, exception, consumed, broke, own, timedOut,
                   yielded, unread, mainVars,
                   formatVars, fmt_raw>>

\* line 99: control enters the try statement
EnterTry ==
    /\ pc = "pre_try"
    /\ pc' = "query"
    /\ UNCHANGED <<argVars, extractVars, exception, mainVars, formatVars, fmt_raw>>

\* line 100: recurring_ical_events.of(cal).after(current_date); the library may raise
BuildQuery ==
    /\ pc = "query"
    /\ \/ pc' = "init_list"
       \/ pc' = "except_other"
    /\ UNCHANGED <<argVars, extractVars, exception, mainVars, formatVars, fmt_raw>>

\* line 105
InitList ==
    /\ pc = "init_list"
    /\ filtered_events' = [bound |-> TRUE, list |-> <<>>]
    /\ pc' = "iterate"
    /\ UNCHANGED <<argVars, target_timezone, all_events, fileIdx, current_date, end_date,
                   alarm, exception, consumed, broke, own, timedOut,
                   yielded, unread, mainVars,
                   formatVars, fmt_raw>>

\* WindowStep with "continue" in place of "break" at line 137
WindowStepSkips(occ) ==
    IF occ.start_time.d > end_date
    THEN /\ broke' = TRUE
         /\ pc' = "iterate"
         /\ UNCHANGED <<filtered_events, own, unread>>
    ELSE /\ filtered_events' = [filtered_events EXCEPT !.list = Append(@, occ)]
         /\ own' = Append(own, occ)
         /\ pc' = "iterate"
         /\ UNCHANGED <<broke, unread>>

\* lines 134-145 for a normalised occurrence: break, or append
WindowStep(occ) ==
    IF occ.start_time.d > end_date
    THEN /\ broke' = TRUE
         /\ pc' = "finally"
         \* the generator is abandoned with whatever it would have yielded next
         /\ unread' \in IF consumed < MaxOccs - 1
                        THEN {<<>>} \cup {<<ev>> : ev \in RawOccs}
                        ELSE {<<>>}
         /\ UNCHANGED <<filtered_events, own>>
    ELSE /\ filtered_events' = [filtered_events EXCEPT !.list = Append(@, occ)]
         /\ own' = Append(own, occ)
         /\ pc' = "iterate"
         /\ UNCHANGED <<broke, unread>>

\* lines 107-148: one turn of the loop over the generator
IterateEvent ==
    /\ pc = "iterate"
    /\ \/ \* the generator is exhausted
          /\ pc' = "finally"
          /\ UNCHANGED <<filtered_events, consumed, broke, own, yielded, unread>>
       \/ \* the generator raises
          /\ consumed < MaxOccs
          /\ consumed' = consumed + 1
          /\ pc' = "except_other"
          /\ UNCHANGED <<filtered_events, broke, own, yielded, unread>>
       \/ \* the generator yields an occurrence
          /\ consumed < MaxOccs
          /\ consumed' = consumed + 1
          /\ \E ev \in RawOccs :
                /\ yielded' = Append(yielded, ev)
                /\ IF NormalizeRaises(ev)
                   THEN /\ pc' = "except_other"
                        /\ UNCHANGED <<filtered_events, broke, own, unread>>
                   ELSE WindowStep(Occurrence(ev, TzDb[target_timezone]))
    /\ UNCHANGED <<argVars, target_timezone, all_events, fileIdx, current_date, end_date,
                   alarm, exception, timedOut, mainVars, formatVars, fmt_raw>>

\* lines 150-151
ExceptTimeout ==
    /\ pc = "except_timeout"
    /\ pc' = "finally"
    /\ UNCHANGED <<argVars, extractVars, exception, mainVars, formatVars, fmt_raw>>

\* lines 152-153
ExceptOther ==
    /\ pc = "except_other"
    /\ pc' = "finally"
    /\ UNCHANGED <<argVars, extractVars, exception, mainVars, formatVars, fmt_raw>>

\* Finally without signal.alarm(0)
FinallyKeepsAlarm ==
    /\ pc = "finally"
    /\ IF exception /= "" THEN pc' = "aborted" ELSE pc' = "extend"
    /\ UNCHANGED <<argVars, extractVars, exception, mainVars, formatVars, fmt_raw>>

\* lines 154-155: signal.alarm(0), then an exception in flight goes on
Finally ==
    /\ pc = "finally"
    /\ alarm' = "off"
    /\ IF exception /= "" THEN pc' = "aborted" ELSE pc' = "extend"
    /\ UNCHANGED <<argVars, target_timezone, all_events, fileIdx, current_date, end_date,
                   filtered_events, exception, consumed, broke, own, timedOut,
                   yielded, unread,
                   mainVars, formatVars, fmt_raw>>

\* line 157: UnboundLocalError when line 105 never ran in this call
ExtendAll ==
    /\ pc = "extend"
    /\ IF filtered_events.bound
       THEN /\ all_events' = all_events \o filtered_events.list
            /\ pc' = "for_file"
            /\ UNCHANGED exception
       ELSE /\ Abort("UnboundLocalError@157")
            /\ UNCHANGED all_events
    /\ UNCHANGED <<argVars, target_timezone, fileIdx, current_date, end_date, alarm,
                   filtered_events, consumed, broke, own, timedOut,
                   yielded, unread, mainVars,
                   formatVars, fmt_raw>>

\* positions inside the try body, lines 100-148
TryBody == {"query", "init_list", "iterate"}

\* positions between signal.alarm(5) and signal.alarm(0)
GuardedRegion == {"pre_try", "except_timeout", "except_other", "finally"} \cup TryBody

\* lines 68-69: SIGALRM is delivered between two instructions of the main
\* thread and the handler raises TimeoutError there
AlarmExpires ==
    /\ alarm = "armed"
    /\ alarm' = "off"
    /\ timedOut' = TRUE
    /\ CASE pc \in TryBody ->
              \* caught at line 150
              pc' = "except_timeout" /\ UNCHANGED exception
         [] pc = "except_other" ->
              \* raised inside the handler: the finally clause runs, then it propagates
              pc' = "finally" /\ exception' = "TimeoutError"
         [] OTHER ->
              \* raised before the try statement or inside the finally clause
              Abort("TimeoutError")
    /\ UNCHANGED <<argVars, target_timezone, all_events, fileIdx, current_date, end_date,
                   filtered_events, consumed, broke, own, yielded, unread, mainVars,
                   formatVars, fmt_raw>>

ExtractNext ==
    \/ EnterExtract
    \/ NextFile
    \/ OpenRead
    \/ ParseCalendar
    \/ GetCurrentDate
    \/ ArmAlarm
    \/ EnterTry
    \/ BuildQuery
    \/ InitList
    \/ IterateEvent
    \/ ExceptTimeout
    \/ ExceptOther
    \/ Finally
    \/ ExtendAll
    \/ AlarmExpires

(***************************************************************************)
(* __main__ after the extraction, lines 267-305.                           *)
(***************************************************************************)
\* line 267: filter_events_by_date; strptime raises ValueError on a malformed date
FilterByDate ==
    /\ pc = "filter"
    /\ IF StrptimeOk(dateArg)
       THEN /\ main_filtered_events' = filter_events_by_date(all_events, dateArg)
            /\ pc' = "sort"
            /\ UNCHANGED exception
       ELSE /\ Abort("ValueError@168")
            /\ UNCHANGED main_filtered_events
    /\ UNCHANGED <<argVars, extractVars, ics_out, txt_out, formatVars, fmt_raw>>

\* line 270
SortEvents ==
    /\ pc = "sort"
    /\ main_filtered_events' = SortByStart(main_filtered_events)
    /\ pc' = "write_ics"
    /\ UNCHANGED <<argVars, extractVars, exception, ics_out, txt_out, formatVars, fmt_raw>>

\* lines 273-293
WriteIcs ==
    /\ pc = "write_ics"
    /\ ics_out' = [written |-> TRUE, content |-> main_filtered_events]
    /\ pc' = "format"
    /\ UNCHANGED <<argVars, extractVars, exception, main_filtered_events, txt_out,
                   formatVars, fmt_raw>>

(***************************************************************************)
(* format_events_for_text_file, lines 217-243, called at line 297 with     *)
(* (filtered_events, args.date).                                           *)
(***************************************************************************)
\* IsAllDay that looks at the start only
IsAllDayByStart(event) == IsTimeMin(event.start_time)

\* line 221
IsAllDay(event) == IsTimeMin(event.start_time) /\ IsTimeMax(event.end_time)

\* lines 223, 227-229: the entry of one event, given the reply of the language model
AllDayEntry(event, reply) == summarize_with_gpt(event.title, AllDayMaxLength, reply)

TimedEntry(event, reply) ==
    HourMinute(event.start_time) \o <<32>> \o summarize_with_gpt(event.title, TimedMaxLength, reply)

\* lines 220-229: one turn of the loop
FormatEvent ==
    /\ pc = "format"
    /\ fmt_i < Len(main_filtered_events)
    /\ fmt_i' = fmt_i + 1
    /\ \E reply \in GptReplies :
         LET event == main_filtered_events[fmt_i + 1]
         IN IF IsAllDay(event)
            THEN /\ all_day_events' = Append(all_day_events, AllDayEntry(event, reply))
                 /\ classes' = Append(classes, "allday")
                 /\ lines' = Append(lines, AllDayEntry(event, reply))
                 /\ UNCHANGED <<timed_events, timed_starts>>
            ELSE /\ timed_events' = Append(timed_events, TimedEntry(event, reply))
                 /\ timed_starts' = Append(timed_starts, event.start_time)
                 /\ classes' = Append(classes, "timed")
                 /\ lines' = Append(lines, TimedEntry(event, reply))
                 /\ UNCHANGED all_day_events
    /\ UNCHANGED <<pc, argVars, extractVars, exception, mainVars, digest, fmt_raw>>

\* lines 231-243: sort both groups, timed entries first, header on top
FormatFinish ==
    /\ pc = "format"
    /\ fmt_i = Len(main_filtered_events)
    /\ all_day_events' = SortLines(all_day_events)
    /\ timed_events' = SortLines(timed_events)
    /\ timed_starts' = [k \in 1..Len(timed_events) |->
                           timed_starts[SortSource(timed_events, k, StrLess)]]
    /\ digest' = DateHeader(dateArg) \o JoinLines(timed_events' \o all_day_events')
    /\ pc' = "write_txt"
    /\ UNCHANGED <<argVars, extractVars, exception, mainVars, fmt_i, classes, lines, fmt_raw>>

\* lines 299-305
WriteTxt ==
    /\ pc = "write_txt"
    /\ txt_out' = [written |-> TRUE, content |-> digest]
    /\ pc' = "done"
    /\ UNCHANGED <<argVars, extractVars, exception, main_filtered_events, ics_out,
                   formatVars, fmt_raw>>

FormatNext == FormatEvent \/ FormatFinish

Next ==
    \/ ExtractNext
    \/ FilterByDate
    \/ SortEvents
    \/ WriteIcs
    \/ FormatNext
    \/ WriteTxt

\* a run of the script
Spec == Init /\ [][Next]_vars

(***************************************************************************)
(* The formatter on its own: every list of normalised occurrences, in any  *)
(* order, and every well-formed date.                                      *)
(***************************************************************************)
Day1 == Today0 + 1

NoSummary(ev) == [ev EXCEPT !.hasSummary = FALSE]

LosAngeles == TzDb["America/Los_Angeles"]

\* raw occurrences of one day: all-day ones, timed ones at 07:30, 09:00:10,
\* 09:00:30 and 13:15, one from local midnight to 23:59:59, one mixing a date
\* start with a datetime end
FormatRawOccs ==
    { RawEvent(TitleA, RawDate(Day1), FALSE, RawDate(Day1), FALSE),
      RawEvent(TitleLong, RawDate(Day1), TRUE, RawDate(Day1 + 1), TRUE),
      RawEvent(TitleB, RawZoned(Day1, 32410, LosAngeles), TRUE, RawZoned(Day1, 36000, LosAngeles), TRUE),
      RawEvent(TitleA, RawZoned(Day1, 32430, LosAngeles), FALSE, RawDate(Day1), FALSE),
      RawEvent(TitleLong, RawZoned(Day1, 0, LosAngeles), TRUE, RawZoned(Day1, 86399, LosAngeles), FALSE),
      RawEvent(TitleB, RawDate(Day1), TRUE, RawNaive(Day1, 36000), FALSE),
      NoSummary(RawEvent(TitleA, RawZoned(Day1, 47700, LosAngeles), TRUE, RawZoned(Day1, 51300, LosAngeles), FALSE)),
      RawEvent(TitleB, RawNaive(Day1, 27000 + SystemUtcOffset + 28800), TRUE, RawNaive(Day1, 36000 + SystemUtcOffset + 28800), FALSE) }

\* "2024-1-30": a one-digit month is accepted by %m
DateShort == <<50, 48, 50, 52, 45, 49, 45, 51, 48>>
\* "2024-02-30": no such day
DateNoSuchDay == <<50, 48, 50, 52, 45, 48, 50, 45, 51, 48>>

WellFormedDates == {DateGood, DateShort}

SeqsUpTo(S, n) == UNION {[1..k -> S] : k \in 0..n}

InitFormat ==
    /\ pc = "format"
    /\ nFiles = 1
    /\ tzArg \in {"America/Los_Angeles", "UTC"}
    /\ dateArg \in WellFormedDates
    /\ fmt_raw \in SeqsUpTo(FormatRawOccs, MaxEvents)
    /\ main_filtered_events = [i \in 1..Len(fmt_raw) |-> Occurrence(fmt_raw[i], TzDb[tzArg])]
    /\ ExtractIdle
    /\ ics_out = Unwritten(<<>>)
    /\ txt_out = Unwritten(<<>>)
    /\ FormatIdle

SpecFormat == InitFormat /\ [][FormatNext]_vars

(***************************************************************************)
(* The exact-date filter on its own: every list of normalised occurrences  *)
(* of three days and every date text.                                      *)
(***************************************************************************)
FilterOccs ==
    {Occurrence(ev, LosAngeles) : ev \in {r \in RawOccs \cup FormatRawOccs : ~NormalizeRaises(r)}}

FilterDates == {DateGood, DateShort, DateNoSuchDay, DateSlashes}

InitFilter ==
    /\ pc = "filter"
    /\ nFiles = 1
    /\ tzArg = "America/Los_Angeles"
    /\ dateArg \in FilterDates
    /\ all_events \in SeqsUpTo(FilterOccs, MaxEvents)
    /\ target_timezone = "America/Los_Angeles"
    /\ fileIdx = 1
    /\ current_date = Today0
    /\ end_date = Today0 + DAYS_TO_INCLUDE
    /\ alarm = "off"
    /\ filtered_events = Unbound
    /\ exception = ""
    /\ consumed = 0
    /\ broke = FALSE
    /\ own = <<>>
    /\ timedOut = FALSE
    /\ yielded = <<>>
    /\ unread = <<>>
    /\ main_filtered_events = <<>>
    /\ ics_out = Unwritten(<<>>)
    /\ txt_out = Unwritten(<<>>)
    /\ FormatIdle
    /\ fmt_raw = <<>>

SpecFilter == InitFilter /\ [][FilterByDate]_vars

(***************************************************************************)
(* Properties.                                                             *)
(***************************************************************************)
IsSuffix(s, t) == Len(s) <= Len(t) /\ SubSeq(t, Len(t) - Len(s) + 1, Len(t)) = s

Range(s) == {s[i] : i \in 1..Len(s)}

\* C1: an expiry of the alarm while it is armed for a file never ends the run,
\* and when the file is left the occurrences its loop had appended are added
\* to the result and the loop goes on to the next file.
C1_TimeoutIsRecoverable ==
    [][ /\ timedOut' => pc' /= "aborted"
        /\ (timedOut /\ pc = "extend" /\ pc' /= pc)
              => (pc' = "for_file" /\ IsSuffix(own, all_events')) ]_vars

\* C2: the step that meets the first occurrence whose start date is after
\* end_date appends nothing, after it nothing more is requested from the
\* file's generator or appended, and no accumulated occurrence starts after
\* end_date.
InWindow(events) == \A i \in 1..Len(events) : events[i].start_time.d <= end_date

C2_EarlyExit ==
    [][ /\ (~broke /\ broke') => (filtered_events' = filtered_events /\ own' = own)
        /\ (broke /\ broke') => (consumed' = consumed /\ filtered_events' = filtered_events)
        /\ InWindow(all_events')
        /\ InWindow(filtered_events'.list) ]_vars

\* a file's loop was left through break while the generator could still be
\* asked for more, after an earlier file had contributed occurrences
C2_Witness ==
    /\ pc = "for_file"
    /\ broke
    /\ consumed < MaxOccs
    /\ fileIdx > 1
    /\ all_events /= <<>>

\* C3: outside the region between signal.alarm(5) and signal.alarm(0) no
\* alarm is pending.
C3_DisarmedOutside == (pc \notin GuardedRegion) => alarm = "off"

\* the finally clause has run after a timeout that left a partial list
C3_Witness ==
    /\ pc = "extend"
    /\ timedOut
    /\ own /= <<>>
    /\ alarm = "off"

\* C4: a file that cannot be read or parsed is skipped: it never ends the run.
C4_BadFileIsSkipped ==
    pc = "aborted" => exception \notin {"OSError@82", "ValueError@86"}

\* C5: with a malformed --date no input file is opened and no alarm is armed.
C5_BadDateAbortsFirst ==
    ~StrptimeOk(dateArg) => (fileIdx = 0 /\ alarm = "off" /\ pc \in {"main", "for_file", "aborted"})

\* C6: the formatter puts an event in the all-day group exactly when its start
\* is at 00:00:00 and its end at 23:59:59.999999; an occurrence that came from
\* a date start with no end or a date end is in that group and its entry is
\* the summarised title alone, every other one is in the timed group and its
\* entry is "HH:MM", a space and the summarised title.
FromDates(ev) == ~ev.dtstart.isDatetime /\ ~RawEnd(ev).isDatetime

C6_AllDayExact ==
    \A i \in 1..fmt_i :
        LET event == main_filtered_events[i]
            raw == fmt_raw[i]
        IN /\ classes[i] = "allday"
                <=> (event.start_time.sec = 0 /\ event.start_time.us = 0
                     /\ event.end_time.sec = 86399 /\ event.end_time.us = 999999)
           /\ FromDates(raw) <=> classes[i] = "allday"
           /\ classes[i] = "allday" =>
                /\ \E reply \in GptReplies :
                      lines[i] = summarize_with_gpt(TitleOf(raw), AllDayMaxLength, reply)
                /\ lines[i] \in Range(all_day_events)
           /\ classes[i] = "timed" =>
                /\ \E reply \in GptReplies :
                      lines[i] = HourMinute(event.start_time) \o <<32>>
                                   \o summarize_with_gpt(TitleOf(raw), TimedMaxLength, reply)
                /\ lines[i] \in Range(timed_events)

\* the formatter has finished a list that holds an all-day occurrence and a
\* timed one whose start is at 00:00:00
C6_Witness ==
    /\ pc = "write_txt"
    /\ \E i, j \in 1..fmt_i :
          /\ classes[i] = "allday"
          /\ classes[j] = "timed"
          /\ IsTimeMin(main_filtered_events[j].start_time)

\* C7: the digest is the header of the target date, then the timed entries,
\* then the all-day entries; the timed entries are in non-decreasing order of
\* the start time-of-day of their events and the all-day entries in
\* lexicographic order.
NonDecreasingStarts(starts) ==
    \A k \in 1..Len(starts) : \A l \in k..Len(starts) : starts[k].sec <= starts[l].sec

LexSorted(entries) ==
    \A k \in 1..Len(entries) : \A l \in k..Len(entries) : ~StrLess(entries[l], entries[k])

C7_DigestLayout ==
    pc = "write_txt" =>
        /\ digest = DateHeader(dateArg) \o JoinLines(timed_events \o all_day_events)
        /\ LexSorted(timed_events)
        /\ LexSorted(all_day_events)
        /\ NonDecreasingStarts(timed_starts)

\* C8: filter_events_by_date returns exactly the occurrences of the list whose
\* start date is the target date, each once and in their order, and leaves
\* the list as it was.
OnDate(events, day) == {i \in 1..Len(events) : events[i].start_time.d = day}

\* the k-th smallest index of a set of indices
KthIndex(idx, k) == CHOOSE i \in idx : Cardinality({j \in idx : j < i}) = k - 1

ExactlyOnDate(events, day, result) ==
    /\ Len(result) = Cardinality(OnDate(events, day))
    /\ \A k \in 1..Len(result) : result[k] = events[KthIndex(OnDate(events, day), k)]

C8_ExactDateFilter ==
    [][ (pc = "filter" /\ pc' = "sort")
          => /\ all_events' = all_events
             /\ ExactlyOnDate(all_events, StrptimeDate(dateArg), main_filtered_events') ]_vars

\* the filter has kept one of two occurrences
C8_Witness ==
    /\ pc = "sort"
    /\ Len(all_events) = 2
    /\ Len(main_filtered_events) = 1

\* C9: every appended occurrence has a start and an end that carry a timezone,
\* and its start is not after its end.
WellFormedOccurrence(occ) ==
    /\ occ.start_time.aware
    /\ occ.end_time.aware
    /\ ~InstantLess(occ.end_time, occ.start_time)

C9_OccurrenceInvariant ==
    /\ \A i \in 1..Len(all_events) : WellFormedOccurrence(all_events[i])
    /\ \A i \in 1..Len(filtered_events.list) : WellFormedOccurrence(filtered_events.list[i])

\* C10 as stated: with an empty or unknown --timezone the default is used and
\* the timezone never ends the run.
C10_NeverFails ==
    (tzArg = "" \/ ~TzKnown(tzArg)) =>
        /\ pc /= "main" => target_timezone = DefaultTimezone
        /\ exception /= "UnknownTimeZoneError@89"

\* C10 amended: with an empty --timezone the default is used and the timezone
\* never ends the run; a non-empty name the database does not know is kept,
\* and the run ends at line 89 of the first file, before any alarm is armed.
C10_EmptyDefaults ==
    /\ tzArg = "" =>
          /\ pc /= "main" => target_timezone = DefaultTimezone
          /\ exception /= "UnknownTimeZoneError@89"
    /\ (tzArg /= "" /\ ~TzKnown(tzArg)) =>
          /\ pc /= "main" => target_timezone = tzArg
          /\ pc \in {"main", "for_file", "open", "parse", "now", "aborted"}
          /\ fileIdx <= 1
          /\ pc = "aborted" => exception \in {"OSError@82", "ValueError@86", "UnknownTimeZoneError@89"}

\* a run with an empty --timezone has written both files, with occurrences
\* of more than one input file
C10_Witness ==
    /\ tzArg = ""
    /\ pc = "done"
    /\ fileIdx > 1
    /\ Len(all_events) > 1
    /\ ics_out.content /= <<>>

\* C11: whenever a file is left, the accumulated list grows by exactly the
\* occurrences that file's own loop appended, and the loop goes on to the
\* next file (so the list is the concatenation, in file order, of what each
\* file produced, nothing is added twice and no file ends the run here).
C11_NoLeakAcrossFiles ==
    [][ (pc = "extend" /\ pc' /= pc)
          => (pc' = "for_file" /\ all_events' = all_events \o own) ]_vars

\* the elements of a generator's sequence come in the order of their starts,
\* a date start counted from midnight UTC as line 127 stamps it
Chronological(seq, tzoff) ==
    \A i, j \in 1..Len(seq) :
        i < j => ~InstantLess(NormStart(seq[j], tzoff), NormStart(seq[i], tzoff))

\* C12: when a file whose generator's sequence is chronological is left
\* through break, without timeout or exception, every element handed to the
\* loop whose normalised start date is at most end_date is in the file's
\* result, and the element the generator held next, if any, starts after
\* end_date: no occurrence inside the window follows the one that broke.
C12_EarlyExitLosesNothing ==
    LET tzoff == TzDb[target_timezone]
    IN (pc = "extend" /\ broke /\ ~timedOut /\ exception = ""
           /\ Chronological(yielded \o unread, tzoff))
          => /\ \A i \in 1..Len(yielded) :
                   NormStart(yielded[i], tzoff).d <= end_date
                      => Occurrence(yielded[i], tzoff) \in Range(own)
             /\ \A i \in 1..Len(unread) :
                   ~NormalizeRaises(unread[i])
                      => NormStart(unread[i], tzoff).d > end_date

====
